---- MODULE Spec2Model ----
(***************************************************************************)
(* ARIA routing rules: the rule store handlers of the backend             *)
(* (routes/routes.ts), the webhook dispatch handlers (routes/webhooks.ts), *)
(* and the client-side RoutingService of the iOS app (ARIA_iOS.swift).     *)
(*                                                                         *)
(* Strings are sequences of one-character strings, so that lower-casing,   *)
(* substring search, prefix test, split and trim are computed and not      *)
(* assumed.                                                                *)
(***************************************************************************)
EXTENDS Integers, Sequences, FiniteSets, TLC

VARIABLES
    users,         \* rows of table "users" (ids)
    routingRules,  \* rows of table "routing_rules": id -> row
    nextId,        \* the next fresh rule id
    messageLog,    \* rows of table "message_logs", in insertion order
    resp,          \* the reply of the last completed backend request
    nreq,          \* requests and routing invocations started so far
    toggles,       \* PATCH /:id/toggle requests between findFirst and update
    route,         \* the RoutingService.routeResponse invocation in progress
    attempts,      \* executeAction calls made by that invocation, in order
    emptyContains, \* what String.contains("") returns in the Swift build
    probe,         \* one (text, condition list) pair handed to both matchers
    pending        \* webhook requests waiting at `await fetch(...)`

vars == <<users, routingRules, nextId, messageLog, resp, nreq, toggles, route,
          attempts, emptyContains, probe, pending>>

-----------------------------------------------------------------------------
(* Bounds *)

MaxRules == 2
MaxRequests == 3
MaxDispatches == 2
MaxTextLen == 2
MaxValueLen == 2
MaxConds == 2

-----------------------------------------------------------------------------
(* Strings *)

UpperCase == <<"A","B","C","D","E","F","G","H","I","J","K","L","M",
               "N","O","P","Q","R","S","T","U","V","W","X","Y","Z">>
LowerCase == <<"a","b","c","d","e","f","g","h","i","j","k","l","m",
               "n","o","p","q","r","s","t","u","v","w","x","y","z">>

LowerChar(c) ==
    IF \E i \in DOMAIN UpperCase : UpperCase[i] = c
    THEN LowerCase[CHOOSE i \in DOMAIN UpperCase : UpperCase[i] = c]
    ELSE c

\* String.prototype.toLowerCase / String.lowercased
toLowerCase(s) == [i \in 1..Len(s) |-> LowerChar(s[i])]

\* String.prototype.includes: "" is included in every string
includes(s, t) ==
    \E i \in 0..(Len(s) - Len(t)) : SubSeq(s, i + 1, i + Len(t)) = t

\* String.prototype.startsWith
startsWith(s, t) ==
    /\ Len(t) <= Len(s)
    /\ SubSeq(s, 1, Len(t)) = t

\* JavaScript white space as far as the alphabet has it: trim() strips
\* spaces and line terminators
JsWhite == {" ", "\n"}
\* CharacterSet.whitespaces: spaces and tabs, no line terminators
SwiftWhite == {" "}

RECURSIVE TrimLeft(_, _)
TrimLeft(s, white) ==
    IF s # <<>> /\ Head(s) \in white THEN TrimLeft(Tail(s), white) ELSE s

RECURSIVE TrimRight(_, _)
TrimRight(s, white) ==
    IF s # <<>> /\ s[Len(s)] \in white
    THEN TrimRight(SubSeq(s, 1, Len(s) - 1), white)
    ELSE s

\* String.prototype.trim
trim(s) == TrimRight(TrimLeft(s, JsWhite), JsWhite)

\* String.trimmingCharacters(in: .whitespaces)
trimmingCharacters(s) == TrimRight(TrimLeft(s, SwiftWhite), SwiftWhite)

\* String.prototype.split(','): every piece is kept, the empty ones too
RECURSIVE split(_)
split(s) ==
    IF \E i \in 1..Len(s) : s[i] = ","
    THEN LET i == CHOOSE k \in 1..Len(s) :
                      s[k] = "," /\ \A j \in 1..(k - 1) : s[j] # ","
         IN  <<SubSeq(s, 1, i - 1)>> \o split(SubSeq(s, i + 1, Len(s)))
    ELSE <<s>>

\* Swift split(separator: ","): omittingEmptySubsequences defaults to true
swiftSplit(s) == SelectSeq(split(s), LAMBDA piece : piece # <<>>)

\* Swift String.contains(other): for other = "" the result depends on which
\* overload the build resolves (Foundation: false, standard library: true)
swiftContains(s, t) ==
    IF t = <<>> THEN emptyContains ELSE includes(s, t)

-----------------------------------------------------------------------------
(* The two rule matchers *)

noCaseFails(condition) == FALSE

\* the switch of checkConditions on a type that has no case label: no
\* statement runs, nothing is returned or thrown, and the loop goes on
noCase(condition) == TRUE

\* checkConditions, the for loop from condition i on
RECURSIVE checkFrom(_, _, _)
checkFrom(lowerContent, conditions, i) ==
    IF i > Len(conditions) THEN TRUE
    ELSE LET condition == conditions[i] IN
         CASE condition.type = "contains" ->
                IF ~includes(lowerContent, toLowerCase(condition.value))
                THEN FALSE
                ELSE checkFrom(lowerContent, conditions, i + 1)
           [] condition.type = "starts_with" ->
                IF ~startsWith(lowerContent, toLowerCase(condition.value))
                THEN FALSE
                ELSE checkFrom(lowerContent, conditions, i + 1)
           [] condition.type = "keyword" ->
                LET pieces == split(condition.value)
                    keywords == [k \in 1..Len(pieces) |->
                                    toLowerCase(trim(pieces[k]))]
                IN  IF ~(\E k \in 1..Len(keywords) :
                            includes(lowerContent, keywords[k]))
                    THEN FALSE
                    ELSE checkFrom(lowerContent, conditions, i + 1)
           [] OTHER -> noCase(condition)
                       /\ checkFrom(lowerContent, conditions, i + 1)

checkConditions(content, conditions) ==
    checkFrom(toLowerCase(content), conditions, 1)

\* RoutingService.matchesRule, the for loop from condition i on
RECURSIVE matchesFrom(_, _, _)
matchesFrom(content, conditions, i) ==
    IF i > Len(conditions) THEN TRUE
    ELSE LET condition == conditions[i] IN
         CASE condition.type = "contains" ->
                IF ~swiftContains(toLowerCase(content),
                                  toLowerCase(condition.value))
                THEN FALSE
                ELSE matchesFrom(content, conditions, i + 1)
           [] condition.type = "keyword" ->
                LET pieces == swiftSplit(condition.value)
                    keywords == [k \in 1..Len(pieces) |->
                                    toLowerCase(trimmingCharacters(pieces[k]))]
                IN  IF ~(\E k \in 1..Len(keywords) :
                            swiftContains(toLowerCase(content), keywords[k]))
                    THEN FALSE
                    ELSE matchesFrom(content, conditions, i + 1)
           [] OTHER -> matchesFrom(content, conditions, i + 1)

matchesRule(content, rule) == matchesFrom(content, rule.conditions, 1)

-----------------------------------------------------------------------------
(* Request data *)

Users == {"u1", "u2"}
RuleIds == 1..MaxRules

ConditionTypes == {"contains", "starts_with", "sentiment", "time_of_day", "keyword"}
Channels == {"discord", "telegram", "sms", "email", "slack", "webhook"}

Cond(t, v) == [type |-> t, value |-> v]
Act(c, d) == [channel |-> c, destination |-> d]

\* texts sent to POST /:id/test and handed to routeResponse
Texts == {<<"a">>, <<"b">>}

\* request bodies of POST / and PUT /:id: JSON objects, a key may be missing
FullBodies ==
    { [name |-> "n", conditions |-> <<Cond("contains", <<"A">>)>>,
       actions |-> <<Act("discord", "https://hook/1")>>, priority |-> 1],
      [name |-> "n", conditions |-> <<>>,
       actions |-> <<Act("discord", "https://hook/1"),
                     Act("slack", "https://hook/2")>>, priority |-> 0],
      [name |-> "n", conditions |-> <<>>,
       actions |-> <<Act("discord", "https://hook/1")>>, priority |-> 1],
      [name |-> "n", conditions |-> <<Cond("contains", <<"A">>)>>,
       actions |-> <<Act("discord", "https://hook/1"),
                     Act("slack", "https://hook/2")>>, priority |-> 0] }

PartialBodies ==
    { [conditions |-> <<Cond("starts_with", <<"a">>)>>],
      [actions |-> <<>>],
      [actions |-> <<Act("discord", ""), Act("sms", "+1")>>],
      [priority |-> 1],
      [name |-> "m", isEnabled |-> FALSE, userId |-> "u2", id |-> 9],
      [name |-> "n", conditions |-> <<>>,
       actions |-> <<Act("telegram", "chat")>>] }

InvalidBodies ==
    { [name |-> ""],
      [name |-> "", conditions |-> <<>>,
       actions |-> <<Act("discord", "https://hook/1")>>, priority |-> 0],
      [conditions |-> <<Cond("regex", <<"a">>)>>],
      [actions |-> <<Act("fax", "https://hook/1")>>] }

Bodies == FullBodies \cup PartialBodies \cup InvalidBodies

\* request bodies of POST /:id/test
TestBodies == { [content |-> t] : t \in Texts } \cup { [other |-> 0] }

-----------------------------------------------------------------------------
(* Validation: createRouteSchema and createRouteSchema.partial() *)

FieldAny(body, f) == TRUE

FieldOk(body, f) ==
    CASE f = "name" -> body.name # ""
      [] f = "conditions" ->
            \A i \in 1..Len(body.conditions) :
                body.conditions[i].type \in ConditionTypes
      [] f = "actions" ->
            \A i \in 1..Len(body.actions) :
                body.actions[i].channel \in Channels
      [] f = "priority" -> body.priority \in Int

\* createRouteSchema.partial().parse: every key optional, present keys checked
partialParseOk(body) ==
    \A f \in DOMAIN body \cap {"name", "conditions", "actions", "priority"} :
        FieldOk(body, f)

\* createRouteSchema.parse: name, conditions, actions required
createParseOk(body) ==
    /\ {"name", "conditions", "actions"} \subseteq DOMAIN body
    /\ partialParseOk(body)

\* priority: z.number().default(0)
priorityOf(body) == IF "priority" \in DOMAIN body THEN body.priority ELSE 0

-----------------------------------------------------------------------------
(* Replies *)

Reply(op, u, status) ==
    [op |-> op, user |-> u, status |-> status,
     missing |-> FALSE,   \* the referenced rule was absent or not the caller's
     changed |-> FALSE,   \* the handler changed table routing_rules
     logged |-> 0,        \* rows the handler added to message_logs
     owners |-> {},       \* owners of the rules in the reply body
     matches |-> FALSE, isEnabled |-> FALSE,
     channel |-> "none",  \* the channel of a webhook request
     parsed |-> FALSE,    \* its body passed the schema
     outcome |-> "none",  \* what its outbound call came to
     http |-> 0,          \* response.status, when the call gave a response
     id |-> 0,            \* the :id of the request
     text |-> <<>>,       \* the content of a test request
     fields |-> {}]       \* the schema keys the body of an update has

NoReply == Reply("none", "u1", 0)

\* the reply together with what the handler did to the two tables
Observed(reply) ==
    [reply EXCEPT !.changed = (routingRules' # routingRules),
                  !.logged = Len(messageLog') - Len(messageLog)]

findFirstById(id, u) == id \in DOMAIN routingRules

\* findFirst({ where: { id, userId } })
findFirst(id, u) ==
    id \in DOMAIN routingRules /\ routingRules[id].userId = u

\* a request is accepted while the budget lasts
Accept ==
    /\ nreq < MaxRequests
    /\ nreq' = nreq + 1

StoreUnchanged == UNCHANGED <<users, routingRules, nextId>>
RouteUnchanged == UNCHANGED <<route, attempts, emptyContains, probe, pending>>

-----------------------------------------------------------------------------
(* Rule store handlers *)

byPriorityAscending(first, second) == first.priority <= second.priority

\* orderBy: { priority: 'desc' }
byPriority(first, second) == first.priority >= second.priority

\* findMany({ where: { userId }, orderBy: { priority: 'desc' } }): the rows of
\* the user in the order asked for; rows of equal priority come in an order
\* the database chooses
OrderedIds(ids) ==
    { s \in [1..Cardinality(ids) -> ids] :
        /\ \A i, j \in DOMAIN s : i # j => s[i] # s[j]
        /\ \A i, j \in DOMAIN s :
              i < j => byPriority(routingRules[s[i]], routingRules[s[j]]) }

ownedBy(u) == { id \in DOMAIN routingRules : routingRules[id].userId = u }

findMany(u) == OrderedIds(ownedBy(u))

\* GET /
ListRoutes(u) ==
    /\ Accept
    /\ StoreUnchanged
    /\ UNCHANGED <<messageLog, toggles>>
    /\ \E rows \in findMany(u) :
          resp' = Observed([Reply("list", u, 200) EXCEPT
                      !.owners = { routingRules[rows[i]].userId : i \in DOMAIN rows }])
    /\ RouteUnchanged

\* POST /
CreateRoute(u, body) ==
    /\ Accept
    /\ UNCHANGED <<messageLog, toggles>>
    /\ IF ~createParseOk(body)
       THEN /\ StoreUnchanged
            /\ resp' = Observed(Reply("create", u, 400))
       ELSE IF u \notin users
       THEN \* routing_rules_userId_fkey rejects the row; the error is rethrown
            /\ StoreUnchanged
            /\ resp' = Observed(Reply("create", u, 500))
       ELSE /\ nextId <= MaxRules
            /\ routingRules' =
                 [id \in DOMAIN routingRules \cup {nextId} |->
                    IF id = nextId
                    THEN [userId |-> u, name |-> body.name,
                          conditions |-> body.conditions,
                          actions |-> body.actions,
                          priority |-> priorityOf(body),
                          isEnabled |-> TRUE]
                    ELSE routingRules[id]]
            /\ nextId' = nextId + 1
            /\ UNCHANGED users
            /\ resp' = Observed([Reply("create", u, 200) EXCEPT !.owners = {u}])
    /\ RouteUnchanged

MergedAllKeys(row, body) ==
    [f \in DOMAIN row |-> IF f \in DOMAIN body THEN body[f] ELSE row[f]]

\* the keys of a body that createRouteSchema keeps: z.object strips the rest
Supplied(body) == DOMAIN body \cap {"name", "conditions", "actions", "priority"}

\* the row after updateMany's data: the keys the body has replace the row's
Merged(row, body) ==
    [f \in DOMAIN row |->
        IF f \in DOMAIN body \cap {"name", "conditions", "actions", "priority"}
        THEN body[f] ELSE row[f]]

\* PUT /:id
UpdateRoute(u, id, body) ==
    /\ Accept
    /\ UNCHANGED <<messageLog, toggles>>
    /\ IF ~partialParseOk(body)
       THEN /\ StoreUnchanged
            /\ resp' = Observed([Reply("update", u, 400) EXCEPT
                                    !.missing = ~findFirst(id, u)])
       ELSE IF ~findFirst(id, u)
       THEN \* updateMany: count = 0
            /\ StoreUnchanged
            /\ resp' = Observed([Reply("update", u, 404) EXCEPT !.missing = TRUE])
       ELSE /\ routingRules' =
                 [routingRules EXCEPT ![id] = Merged(routingRules[id], body)]
            /\ UNCHANGED <<users, nextId>>
            /\ resp' = Observed([Reply("update", u, 200) EXCEPT
                                    !.id = id, !.fields = Supplied(body)])
    /\ RouteUnchanged

\* PATCH /:id/toggle up to the reply or to the await of update
ToggleFind(u, id) ==
    /\ Accept
    /\ StoreUnchanged
    /\ UNCHANGED messageLog
    /\ IF ~findFirst(id, u)
       THEN /\ resp' = Observed([Reply("toggle", u, 404) EXCEPT !.missing = TRUE])
            /\ UNCHANGED toggles
       ELSE /\ toggles' = Append(toggles,
                   [user |-> u, id |-> id,
                    isEnabled |-> routingRules[id].isEnabled])
            /\ UNCHANGED resp
    /\ RouteUnchanged

RemoveAt(s, k) == SubSeq(s, 1, k - 1) \o SubSeq(s, k + 1, Len(s))

\* PATCH /:id/toggle from update({ where: { id } }) on
ToggleUpdate(k) ==
    /\ k \in DOMAIN toggles
    /\ UNCHANGED <<messageLog, nreq>>
    /\ LET existingRoute == toggles[k] IN
       IF existingRoute.id \notin DOMAIN routingRules
       THEN \* update throws on a missing row; the error handler answers
            /\ StoreUnchanged
            /\ resp' = Observed(Reply("toggle", existingRoute.user, 500))
       ELSE /\ routingRules' = [routingRules EXCEPT
                   ![existingRoute.id].isEnabled = ~existingRoute.isEnabled]
            /\ UNCHANGED <<users, nextId>>
            /\ resp' = Observed([Reply("toggle", existingRoute.user, 200) EXCEPT
                                    !.id = existingRoute.id,
                                    !.isEnabled = ~existingRoute.isEnabled])
    /\ toggles' = RemoveAt(toggles, k)
    /\ RouteUnchanged

\* the status DELETE /:id answers with, whether or not deleteMany found a row
deleteStatus(found) == 200

\* DELETE /:id
DeleteRoute(u, id) ==
    /\ Accept
    /\ routingRules' =
         IF findFirst(id, u)
         THEN [i \in DOMAIN routingRules \ {id} |-> routingRules[i]]
         ELSE routingRules
    /\ UNCHANGED <<users, nextId, messageLog, toggles>>
    /\ resp' = Observed([Reply("delete", u, deleteStatus(findFirst(id, u))) EXCEPT
                            !.missing = ~findFirst(id, u)])
    /\ RouteUnchanged

onDeleteNoAction(rows, u) == rows

\* routing_rules_userId_fkey ... ON DELETE CASCADE: the rows left in
\* routing_rules when the row of user u goes
onDeleteCascade(rows, u) ==
    [id \in { i \in DOMAIN rows : rows[i].userId # u } |-> rows[id]]

\* DELETE /account
DeleteAccount(u) ==
    /\ Accept
    /\ IF u \notin users
       THEN \* user.delete throws on a missing row; the error handler answers
            /\ StoreUnchanged
            /\ UNCHANGED messageLog
            /\ resp' = Observed(Reply("account", u, 500))
       ELSE /\ users' = users \ {u}
            /\ routingRules' = onDeleteCascade(routingRules, u)
            \* message_logs_userId_fkey ... ON DELETE CASCADE
            /\ messageLog' = SelectSeq(messageLog, LAMBDA row : row.userId # u)
            /\ UNCHANGED nextId
            /\ resp' = Observed(Reply("account", u, 200))
    /\ UNCHANGED toggles
    /\ RouteUnchanged

TestWritesLog ==
    /\ StoreUnchanged
    /\ UNCHANGED toggles
    /\ messageLog' = Append(messageLog, [channel |-> "test"])

\* what POST /:id/test writes: nothing
TestWrites ==
    /\ StoreUnchanged
    /\ UNCHANGED <<messageLog, toggles>>

testMatchesEnabled(rule, content) ==
    rule.isEnabled /\ checkConditions(content, rule.conditions)

\* const matches = checkConditions(content, route.conditions)
testMatches(rule, content) == checkConditions(content, rule.conditions)

\* POST /:id/test
TestRoute(u, id, body) ==
    /\ Accept
    /\ TestWrites
    /\ IF ~findFirst(id, u)
       THEN resp' = Observed([Reply("test", u, 404) EXCEPT !.missing = TRUE])
       ELSE IF "content" \notin DOMAIN body
       THEN \* content is undefined: content.toLowerCase() throws
            resp' = Observed(Reply("test", u, 500))
       ELSE resp' = Observed([Reply("test", u, 200) EXCEPT
                        !.matches = testMatches(routingRules[id], body.content),
                        !.id = id, !.text = body.content,
                        !.owners = {routingRules[id].userId}])
    /\ RouteUnchanged

-----------------------------------------------------------------------------
(* RoutingService of the iOS app *)

whereAny(rule) == TRUE

\* `for rule in rules where rule.isEnabled`
whereEnabled(rule) == rule.isEnabled

afterFirstMatch(rules, ri) == Len(rules) + 1

\* the position the loop goes on from once the actions of rule ri are done
afterRule(rules, ri) == ri + 1

\* the loop over the rules from position ri up to the first await: the
\* position of the next enabled, matching rule that has an action, or
\* Len(rules) + 1 when the loop ends
RECURSIVE forRules(_, _, _)
forRules(rules, response, ri) ==
    IF ri > Len(rules) THEN Len(rules) + 1
    ELSE IF /\ whereEnabled(rules[ri])
            /\ matchesRule(response, rules[ri])
            /\ rules[ri].actions # <<>>
         THEN ri
         ELSE forRules(rules, response, ri + 1)

\* the rules as the client holds them: rows of GET / in the order of the
\* reply, decoded into RoutingRule (userId and priority are not decoded and
\* are kept here only to state properties)
Decoded(rows) == [i \in DOMAIN rows |->
    [id |-> rows[i],
     userId |-> routingRules[rows[i]].userId,
     priority |-> routingRules[rows[i]].priority,
     conditions |-> routingRules[rows[i]].conditions,
     actions |-> routingRules[rows[i]].actions,
     isEnabled |-> routingRules[rows[i]].isEnabled]]

RouteWritesDisable ==
    /\ routingRules' = [id \in DOMAIN routingRules |->
                           [routingRules[id] EXCEPT !.isEnabled = FALSE]]
    /\ UNCHANGED <<users, nextId, messageLog, resp, toggles>>

\* what routeResponse writes in the backend: nothing
RouteWrites ==
    /\ StoreUnchanged
    /\ UNCHANGED <<messageLog, resp, toggles>>

\* routeResponse(response, rules) up to its first await
RouteStart(u, response) ==
    /\ route.pc = "idle"
    /\ Accept
    /\ \E rows \in findMany(u) :
         LET rules == Decoded(rows)
             ri == forRules(rules, response, 1)
         IN  route' = [pc |-> IF ri > Len(rules) THEN "done" ELSE "await",
                       user |-> u, text |-> response, rules |-> rules,
                       ri |-> ri, ai |-> 1]
    /\ UNCHANGED <<attempts, emptyContains, probe, pending>>
    /\ RouteWrites

\* URL(string:) is nil for the empty string
isURL(destination) == destination # ""

OutcomesHang(action) ==
    IF action.channel = "discord"
    THEN IF isURL(action.destination)
         THEN {"ok", "http_error", "thrown"}
         ELSE {"no_url"}
    ELSE {}

\* what one executeAction call can come to
Outcomes(action) ==
    IF action.channel = "discord"
    THEN IF isURL(action.destination)
         THEN {"ok", "http_error", "thrown"}
         ELSE {"no_url"}
    ELSE {"stub"}   \* sendToTelegram, sendSMS, ... have empty bodies

ruleAtLive(ri) ==
    LET held == route.rules[ri] IN
    IF /\ held.id \in DOMAIN routingRules
       /\ route.ai \in DOMAIN routingRules[held.id].actions
    THEN [held EXCEPT !.actions = routingRules[held.id].actions]
    ELSE held

\* the rule the loop is at: `rules` is an array of structs passed by value,
\* so the loop works on the elements it was called with
ruleAt(ri) == route.rules[ri]

propagatesThrown(outcome) == outcome = "thrown"

\* `try?`: an error of URLSession.data(for:) is dropped
propagates(outcome) == FALSE

afterActionRetry(ai, outcome) ==
    IF outcome \in {"thrown", "http_error"} THEN ai ELSE ai + 1

\* `for action in rule.actions`: the action the loop goes on with once
\* executeAction has returned, whatever the call came to
afterAction(ai, outcome) == ai + 1

\* routeResponse from the return of one executeAction to the next await
ExecuteAction(outcome) ==
    /\ route.pc = "await"
    /\ LET rule == ruleAt(route.ri)
           action == rule.actions[route.ai]
       IN  /\ outcome \in Outcomes(action)
           /\ attempts' = Append(attempts,
                  [rule |-> rule.id, index |-> route.ai,
                   channel |-> action.channel, outcome |-> outcome])
           /\ IF propagates(outcome)
              THEN route' = [route EXCEPT !.pc = "thrown"]
              ELSE IF afterAction(route.ai, outcome) <= Len(rule.actions)
              THEN route' = [route EXCEPT !.ai = afterAction(route.ai, outcome)]
              ELSE LET ri == forRules(route.rules, route.text,
                                      afterRule(route.rules, route.ri))
                   IN  route' = [route EXCEPT
                          !.pc = IF ri > Len(route.rules) THEN "done" ELSE "await",
                          !.ri = ri, !.ai = 1]
    /\ UNCHANGED <<nreq, emptyContains, probe, pending>>
    /\ RouteWrites

-----------------------------------------------------------------------------
(* Webhook handlers: one outbound call, one row of message_logs *)

\* content.slice(0, 1000); a text is held by its length
ContentLimit == 1000
slice(length) == IF length > ContentLimit THEN ContentLimit ELSE length

\* z.string().url() and z.string().email()
isUrl(x) == x \in {"https://hook/1", "https://hook/2"}
isEmail(x) == x \in {"a@b.c"}

\* what fetch can come to: a response with a status, or a thrown error
Response(status) == [kind |-> "response", status |-> status]
Thrown == [kind |-> "thrown", status |-> 0]
FetchOutcomes == { Response(st) : st \in {200, 299, 300, 404} } \cup {Thrown}

okBelowFourHundred(response) == response.status >= 200 /\ response.status <= 399

\* response.ok
ok(response) == response.status >= 200 /\ response.status <= 299

Has(body, keys) == keys \subseteq DOMAIN body

\* (request.body as any)?.key || ''
orEmpty(body, key) == IF key \in DOMAIN body THEN body[key] ELSE ""
\* (request.body as any)?.content?.slice(0, 1000) || ''
contentOrEmpty(body) == IF "content" \in DOMAIN body THEN slice(body.content) ELSE 0

\* the error column: null, or a message (with the HTTP status it quotes)
NullError == [null |-> TRUE, message |-> "", status |-> 0]
Message(text, status) == [null |-> FALSE, message |-> text, status |-> status]

LogRow(u, channel, destination, content, status, error) ==
    [userId |-> u, channel |-> channel, destination |-> destination,
     content |-> content, status |-> status, error |-> error]

\* prisma.messageLog.create: message_logs_userId_fkey rejects the row of a
\* user whose account is gone, and create throws
create(row) ==
    messageLog' = IF row.userId \in users THEN Append(messageLog, row)
                  ELSE messageLog

\* the reply of a webhook handler; an error thrown by create, in or out of
\* the catch block, is answered 500
WebhookReply(u, channel, status, parsed, outcome) ==
    Observed([Reply("webhook", u, IF u \in users THEN status ELSE 500) EXCEPT
        !.channel = channel, !.parsed = parsed, !.outcome = outcome])

\* the reply, with the status of the response the outbound call gave
WithStatus(reply, response) == [reply EXCEPT !.http = response.status]

\* a webhook request is accepted while the budget lasts
AcceptDispatch ==
    /\ nreq < MaxDispatches
    /\ nreq' = nreq + 1

WebhookFrame ==
    /\ StoreUnchanged
    /\ UNCHANGED toggles
    /\ RouteUnchanged

\* the handlers of /discord, /telegram and /slack are the same code: parse,
\* fetch, throw on a response that is not ok, log `sent`; the catch block
\* logs `failed` with the message of whatever was thrown
FetchAndLog(u, channel, parsed, destination, body, response) ==
    IF ~parsed
    THEN /\ create(LogRow(u, channel, destination, contentOrEmpty(body),
                          "failed", Message("Invalid input", 0)))
         /\ resp' = WebhookReply(u, channel, 500, FALSE, "none")
    ELSE IF response.kind = "thrown"
    THEN /\ create(LogRow(u, channel, destination, contentOrEmpty(body),
                          "failed", Message("fetch failed", 0)))
         /\ resp' = WebhookReply(u, channel, 500, TRUE, "thrown")
    ELSE IF ~ok(response)
    THEN /\ create(LogRow(u, channel, destination, contentOrEmpty(body),
                          "failed",
                          Message("webhook failed: ", response.status)))
         /\ resp' = WithStatus(WebhookReply(u, channel, 500, TRUE, "not_ok"),
                               response)
    ELSE /\ create(LogRow(u, channel, destination, slice(body.content),
                          "sent", NullError))
         /\ resp' = WithStatus(WebhookReply(u, channel, 200, TRUE, "ok"),
                               response)

\* POST /discord
PostDiscord(u, body, response) ==
    /\ AcceptDispatch
    /\ WebhookFrame
    /\ FetchAndLog(u, "discord",
                   Has(body, {"content", "webhookUrl"}) /\ isUrl(body.webhookUrl),
                   orEmpty(body, "webhookUrl"), body, response)

\* POST /telegram
PostTelegram(u, body, response) ==
    /\ AcceptDispatch
    /\ WebhookFrame
    /\ FetchAndLog(u, "telegram",
                   Has(body, {"content", "botToken", "chatId"}),
                   orEmpty(body, "chatId"), body, response)

\* POST /slack
PostSlack(u, body, response) ==
    /\ AcceptDispatch
    /\ WebhookFrame
    /\ FetchAndLog(u, "slack",
                   Has(body, {"content", "webhookUrl"}) /\ isUrl(body.webhookUrl),
                   orEmpty(body, "webhookUrl"), body, response)

handedOverFailed(channel) == "failed"

\* the status /sms and /email log: no provider is called, the row says `sent`
handedOver(channel) == "sent"

\* POST /sms: no provider call; the catch block only answers
PostSms(u, body) ==
    /\ AcceptDispatch
    /\ WebhookFrame
    /\ IF ~Has(body, {"content", "phoneNumber"})
       THEN /\ UNCHANGED messageLog
            /\ resp' = WebhookReply(u, "sms", 500, FALSE, "none")
       ELSE /\ create(LogRow(u, "sms", body.phoneNumber, slice(body.content),
                             handedOver("sms"), NullError))
            /\ resp' = WebhookReply(u, "sms", 200, TRUE, "none")

\* POST /email: no provider call; the row's content is the subject as sent
PostEmail(u, body) ==
    /\ AcceptDispatch
    /\ WebhookFrame
    /\ IF ~(Has(body, {"to", "subject", "body"}) /\ isEmail(body.to))
       THEN /\ UNCHANGED messageLog
            /\ resp' = WebhookReply(u, "email", 500, FALSE, "none")
       ELSE /\ create(LogRow(u, "email", body.to, body.subject,
                             handedOver("email"), NullError))
            /\ resp' = WebhookReply(u, "email", 200, TRUE, "none")

\* JSON.stringify(body)?.slice(0, 1000) || '': a string body gains two quotes
stringified(body) ==
    IF "body" \in DOMAIN body THEN slice(body.body + 2) ELSE 0

\* what the catch block of /custom does with an error thrown by fetch or by
\* response.text(): it only answers
customCatch(u, body) ==
    /\ UNCHANGED messageLog
    /\ resp' = WebhookReply(u, "webhook", 500, TRUE, "thrown")

\* POST /custom
PostCustom(u, body, response) ==
    /\ AcceptDispatch
    /\ WebhookFrame
    /\ IF ~(Has(body, {"url"}) /\ isUrl(body.url))
       THEN /\ UNCHANGED messageLog
            /\ resp' = WebhookReply(u, "webhook", 500, FALSE, "none")
       ELSE IF response.kind = "thrown"
       THEN customCatch(u, body)
       ELSE /\ create(LogRow(u, "webhook", body.url, stringified(body),
                             IF ok(response) THEN "sent" ELSE "failed",
                             IF ok(response) THEN NullError
                             ELSE Message("HTTP ", response.status)))
            /\ resp' = WithStatus(
                          WebhookReply(u, "webhook", 200, TRUE,
                              IF ok(response) THEN "ok" ELSE "not_ok"),
                          response)

-----------------------------------------------------------------------------
(* Initial state and the specification of rule store and routing *)

IdleRoute == [pc |-> "idle", user |-> "u1", text |-> <<>>, rules |-> <<>>,
              ri |-> 0, ai |-> 0]

IdleProbe == [pc |-> "idle", text |-> <<>>, conditions |-> <<>>,
              backend |-> FALSE, ios |-> FALSE]

Init ==
    /\ users = Users
    /\ routingRules = <<>>
    /\ nextId = 1
    /\ messageLog = <<>>
    /\ resp = NoReply
    /\ nreq = 0
    /\ toggles = <<>>
    /\ route = IdleRoute
    /\ attempts = <<>>
    /\ emptyContains \in BOOLEAN
    /\ probe = IdleProbe
    /\ pending = <<>>

Next ==
    \/ \E u \in Users : ListRoutes(u)
    \/ \E u \in Users, body \in Bodies : CreateRoute(u, body)
    \/ \E u \in Users, id \in RuleIds, body \in Bodies : UpdateRoute(u, id, body)
    \/ \E u \in Users, id \in RuleIds : ToggleFind(u, id)
    \/ \E k \in 1..MaxRequests : ToggleUpdate(k)
    \/ \E u \in Users, id \in RuleIds : DeleteRoute(u, id)
    \/ \E u \in Users : DeleteAccount(u)
    \/ \E u \in Users, id \in RuleIds, body \in TestBodies : TestRoute(u, id, body)
    \/ \E u \in Users, response \in Texts : RouteStart(u, response)
    \/ \E outcome \in {"ok", "http_error", "thrown", "no_url", "stub"} :
          ExecuteAction(outcome)
    \/ \E u \in Users, response \in {Response(200), Response(404), Thrown} :
          PostSlack(u, [content |-> 1001, webhookUrl |-> "https://hook/2"], response)

Spec == Init /\ [][Next]_vars

\* `await executeAction(...)` resumes: the stubs return at once, and
\* URLSession.data(for:) returns or throws within the request's timeout
AwaitResumes ==
    \E outcome \in {"ok", "http_error", "thrown", "no_url", "stub"} :
        ExecuteAction(outcome)

\* the invocation together with the requests that write rules meanwhile
LiveNext ==
    \/ \E u \in Users, body \in Bodies : CreateRoute(u, body)
    \/ \E u \in Users, id \in RuleIds, body \in Bodies : UpdateRoute(u, id, body)
    \/ \E u \in Users, id \in RuleIds : DeleteRoute(u, id)
    \/ \E u \in Users, response \in Texts : RouteStart(u, response)
    \/ AwaitResumes

SpecLive == Init /\ [][LiveNext]_vars /\ WF_vars(AwaitResumes)

-----------------------------------------------------------------------------
(* The specification of the webhook handlers *)

ContentLengths == {0, 1000, 1001}

HookBodies ==
    { [content |-> n, webhookUrl |-> "https://hook/1"] : n \in ContentLengths }
    \cup { [content |-> 1001, webhookUrl |-> "hook"],
           [webhookUrl |-> "https://hook/2"] }

TelegramBodies ==
    { [content |-> n, botToken |-> "t", chatId |-> "c"] : n \in ContentLengths }
    \cup { [content |-> 1001, botToken |-> "t"] }

SmsBodies ==
    { [content |-> n, phoneNumber |-> "+1"] : n \in ContentLengths }
    \cup { [content |-> 1001] }

EmailBodies ==
    { [to |-> "a@b.c", subject |-> n, body |-> 0] : n \in ContentLengths }
    \cup { [to |-> "a", subject |-> 0, body |-> 0], [to |-> "a@b.c"] }

CustomBodies ==
    { [url |-> "https://hook/1", body |-> n] : n \in ContentLengths }
    \cup { [url |-> "https://hook/1"], [url |-> "hook", body |-> 0] }

DispatchNext ==
    \/ \E u \in Users, body \in HookBodies, response \in FetchOutcomes :
          PostDiscord(u, body, response)
    \/ \E u \in Users, body \in TelegramBodies, response \in FetchOutcomes :
          PostTelegram(u, body, response)
    \/ \E u \in Users, body \in HookBodies, response \in FetchOutcomes :
          PostSlack(u, body, response)
    \/ \E u \in Users, body \in SmsBodies : PostSms(u, body)
    \/ \E u \in Users, body \in EmailBodies : PostEmail(u, body)
    \/ \E u \in Users, body \in CustomBodies, response \in FetchOutcomes :
          PostCustom(u, body, response)

SpecDispatch == Init /\ [][DispatchNext]_vars

-----------------------------------------------------------------------------
(* The handlers of /discord and /slack with their await: several requests   *)
(* can wait for their fetch at the same time                               *)

localsOfLatest(k) == pending[Len(pending)]

\* the bindings of one call of the handler (request, content, webhookUrl):
\* each call has its own
locals(k) == pending[k]

\* /discord and /slack up to `await fetch(...)`; a body that fails the schema
\* goes to the catch block at once
HookFetch(u, channel, body) ==
    /\ AcceptDispatch
    /\ StoreUnchanged
    /\ UNCHANGED <<toggles, route, attempts, emptyContains, probe>>
    /\ IF ~(Has(body, {"content", "webhookUrl"}) /\ isUrl(body.webhookUrl))
       THEN /\ FetchAndLog(u, channel, FALSE, orEmpty(body, "webhookUrl"),
                           body, Thrown)
            /\ UNCHANGED pending
       ELSE /\ pending' = Append(pending,
                   [seq |-> nreq', user |-> u, channel |-> channel,
                    destination |-> body.webhookUrl, content |-> body.content])
            /\ UNCHANGED <<messageLog, resp>>

\* POST /discord up to its await
DiscordFetch(u, body) == HookFetch(u, "discord", body)

\* POST /slack up to its await
SlackFetch(u, body) == HookFetch(u, "slack", body)

\* /discord and /slack from the return of fetch on, for the request that is
\* k-th among those waiting
HookSettle(k, response) ==
    /\ k \in DOMAIN pending
    /\ StoreUnchanged
    /\ UNCHANGED <<nreq, toggles, route, attempts, emptyContains, probe>>
    /\ LET own == locals(k) IN
         FetchAndLog(own.user, own.channel, TRUE, own.destination,
                     [content |-> own.content, webhookUrl |-> own.destination],
                     response)
    /\ pending' = RemoveAt(pending, k)

ConcurrentNext ==
    \/ \E u \in Users, body \in HookBodies : DiscordFetch(u, body)
    \/ \E u \in Users, body \in HookBodies : SlackFetch(u, body)
    \/ \E k \in 1..MaxDispatches, response \in FetchOutcomes :
          HookSettle(k, response)

SpecConcurrent == Init /\ [][ConcurrentNext]_vars

-----------------------------------------------------------------------------
(* The specification of the two matchers on their own *)

Alphabet == {"a", "b", "A", ",", " "}

StringsUpTo(n) == UNION { [1..k -> Alphabet] : k \in 0..n }

\* the types checkConditions has a case for, and the others
CasedTypes == {"contains", "starts_with", "keyword"}
OtherTypes == {"sentiment", "time_of_day", "regex"}

\* the conditions the lists of several conditions are made of
ListPool ==
    { Cond("contains", <<"a">>),
      Cond("starts_with", <<"b">>),
      Cond("keyword", <<"b", ",", "A">>),
      Cond("sentiment", <<"a">>) }

ListsUpTo(n) == UNION { [1..k -> ListPool] : k \in 0..n }

\* the texts and rules of the specification's own examples
PleaseReview == <<"P","l","e","a","s","e"," ","r","e","v","i","e","w"," ","t","h","i","s"," ","d","o","c","u","m","e","n","t">>
PleaseProcess == <<"P","l","e","a","s","e"," ","p","r","o","c","e","s","s"," ","t","h","i","s"," ","i","n","v","o","i","c","e">>
InvoiceRule == <<Cond("contains", <<"i","n","v","o","i","c","e">>),
                 Cond("starts_with", <<"p","l","e","a","s","e">>)>>
HelloWorld == <<"H","e","l","l","o"," ","W","o","r","l","d">>
HelloRule == <<Cond("contains", <<"h","e","l","l","o">>)>>
NeedHelp == <<"I"," ","n","e","e","d"," ","h","e","l","p"," ","u","r","g","e","n","t","l","y">>
UrgentRule == <<Cond("keyword", <<"u","r","g","e","n","t",","," ","a","s","a","p",","," ","h","e","l","p">>)>>

Examples ==
    { <<PleaseReview, InvoiceRule>>, <<PleaseProcess, InvoiceRule>>,
      <<HelloWorld, HelloRule>>, <<NeedHelp, UrgentRule>>,
      <<NeedHelp, InvoiceRule>> }

ProbeInputs ==
    { <<t, <<Cond(ty, v)>> >> :
        t \in StringsUpTo(MaxTextLen), ty \in CasedTypes,
        v \in StringsUpTo(MaxValueLen) }
    \cup { <<t, <<Cond(ty, <<"a">>)>> >> :
        t \in StringsUpTo(MaxTextLen), ty \in OtherTypes }
    \cup { <<t, c>> : t \in StringsUpTo(MaxTextLen), c \in ListsUpTo(MaxConds) }
    \cup Examples

InitMatch ==
    /\ users = Users
    /\ routingRules = <<>>
    /\ nextId = 1
    /\ messageLog = <<>>
    /\ resp = NoReply
    /\ nreq = 0
    /\ toggles = <<>>
    /\ route = IdleRoute
    /\ attempts = <<>>
    /\ emptyContains \in BOOLEAN
    /\ \E in \in ProbeInputs :
          probe = [IdleProbe EXCEPT !.text = in[1], !.conditions = in[2]]
    /\ pending = <<>>

ProbeFrame ==
    UNCHANGED <<users, routingRules, nextId, messageLog, resp, nreq, toggles,
                route, attempts, emptyContains, pending>>

\* the match decision of POST /:id/test for a rule with these conditions
TestProbe ==
    /\ probe.pc = "idle"
    /\ probe' = [probe EXCEPT
          !.pc = "tested",
          !.backend = checkConditions(probe.text, probe.conditions)]
    /\ ProbeFrame

\* the match decision of routeResponse for a rule with these conditions
RouteProbe ==
    /\ probe.pc = "tested"
    /\ probe' = [probe EXCEPT
          !.pc = "done",
          !.ios = matchesRule(probe.text, [conditions |-> probe.conditions])]
    /\ ProbeFrame

MatchNext == TestProbe \/ RouteProbe

SpecMatch == InitMatch /\ [][MatchNext]_vars

-----------------------------------------------------------------------------
(* Properties of the webhook handlers (SpecDispatch) *)

\* C1: every webhook request whose body passed the schema, so that delivery
\* was attempted, added exactly one row to message_logs, on every channel and
\* whatever the outbound call came to (ok, not ok, thrown).
C1_OneLogRowPerAttempt ==
    (resp.op = "webhook" /\ resp.parsed) => resp.logged = 1

\* C2: when the outbound call of a webhook request threw, the row logged for
\* that request has status `failed` and an error that is neither null nor
\* empty, on every channel that makes a call, /custom included.
C2_ThrownIsLoggedFailed ==
    (resp.op = "webhook" /\ resp.outcome = "thrown") =>
        /\ messageLog # <<>>
        /\ LET row == messageLog[Len(messageLog)] IN
             /\ row.channel = resp.channel
             /\ row.status = "failed"
             /\ ~row.error.null
             /\ row.error.message # ""

\* C11: a webhook request whose body fails the schema is rejected and adds no
\* row to message_logs: no row is caused by a validation failure.
C11_InvalidIsNotLogged ==
    (resp.op = "webhook" /\ ~resp.parsed) => resp.logged = 0

C13_ContentAndStatusBounded ==
    \A k \in DOMAIN messageLog :
        /\ messageLog[k].content <= 1000
        /\ messageLog[k].status \in {"sent", "failed"}

\* C27: a request to /sms or /email whose body passes the schema makes no
\* outbound call and adds exactly one row, of its channel, with status `sent`
\* and no error.
C27_StubsLogSent ==
    (resp.op = "webhook" /\ resp.channel \in {"sms", "email"} /\ resp.parsed) =>
        /\ resp.outcome = "none"
        /\ resp.http = 0
        /\ resp.logged = 1
        /\ LET row == messageLog[Len(messageLog)] IN
             /\ row.channel = resp.channel
             /\ row.status = "sent"
             /\ row.error.null

\* an email request was logged after an sms request
C27_Witness ==
    /\ resp.op = "webhook"
    /\ resp.channel = "email"
    /\ resp.parsed
    /\ Len(messageLog) = 2
    /\ messageLog[1].channel = "sms"
    /\ messageLog[2].channel = "email"

-----------------------------------------------------------------------------
(* Properties of concurrent webhook requests (SpecConcurrent) *)

\* C21: whichever of the waiting requests gets its response, the row logged
\* then has the user, channel, destination and content of that request and
\* the status and error of that request's own response, never those of
\* another request that is waiting.
C21_RowIsOfOwnAttempt ==
    [][Len(pending') < Len(pending) =>
          \E k \in DOMAIN pending :
              LET own == pending[k]
                  row == messageLog'[Len(messageLog')]
              IN  /\ pending' = RemoveAt(pending, k)
                  /\ Len(messageLog') = Len(messageLog) + 1
                  /\ row.userId = own.user
                  /\ row.channel = own.channel
                  /\ row.destination = own.destination
                  /\ row.content = IF own.content > 1000 THEN 1000 ELSE own.content
                  /\ row.status = "sent" <=> resp'.outcome = "ok"
                  /\ row.error.null <=> resp'.outcome = "ok"
                  /\ resp'.outcome = "not_ok" => row.error.status = resp'.http
                  /\ resp'.user = own.user
                  /\ resp'.channel = own.channel]_vars

\* the second request failed and was logged while the first, of another
\* channel, is still waiting for its response
C21_Witness ==
    /\ Len(pending) = 1
    /\ pending[1].seq = 1
    /\ Len(messageLog) = 1
    /\ messageLog[1].channel # pending[1].channel
    /\ resp.parsed
    /\ resp.outcome = "thrown"

-----------------------------------------------------------------------------
(* Properties of routing and of the rule store (Spec) *)

AttemptsOf(id) == { k \in DOMAIN attempts : attempts[k].rule = id }

\* the rules of the invocation's snapshot that routeResponse fires
Fired(rule) == rule.isEnabled /\ matchesRule(route.text, rule)

\* C3: an invocation is never ended by a failed delivery: it does not throw,
\* and once it has returned, every action of every enabled matching rule of
\* its rule set has been attempted, whatever the earlier attempts came to.
C3_FailureBlocksNothing ==
    /\ route.pc # "thrown"
    /\ route.pc = "done" =>
          \A i \in DOMAIN route.rules :
              Fired(route.rules[i]) =>
                  \A k \in DOMAIN route.rules[i].actions :
                      \E n \in AttemptsOf(route.rules[i].id) :
                          attempts[n].index = k

\* a failed attempt was followed by a later attempt, and the invocation returned
C3_Witness ==
    /\ route.pc = "done"
    /\ \E m, n \in DOMAIN attempts :
          /\ m < n
          /\ attempts[m].outcome \in {"thrown", "http_error"}
          /\ attempts[m].rule # attempts[n].rule

\* C22: no retry: an invocation attempts no action of a rule twice, so a
\* failed attempt is never followed by another call for the same action.
C22_NoRetry ==
    \A m, n \in DOMAIN attempts :
        (attempts[m].rule = attempts[n].rule /\ attempts[m].index = attempts[n].index)
            => m = n

\* the invocation returned right after an attempt that had thrown, and an
\* attempt before that one had failed as well
C22_Witness ==
    /\ route.pc = "done"
    /\ Len(attempts) >= 2
    /\ attempts[Len(attempts)].outcome = "thrown"
    /\ attempts[Len(attempts) - 1].outcome = "http_error"

C4_DisabledNeverFires ==
    /\ route.pc = "await" => route.rules[route.ri].isEnabled
    /\ \A i \in DOMAIN route.rules :
          ~route.rules[i].isEnabled => AttemptsOf(route.rules[i].id) = {}

\* the invocation returned, having passed over a disabled rule that has
\* actions and whose conditions match the text
C4_Witness ==
    /\ route.pc = "done"
    /\ \E i \in DOMAIN route.rules :
          /\ ~route.rules[i].isEnabled
          /\ matchesRule(route.text, route.rules[i])
          /\ route.rules[i].actions # <<>>

PriorityOf(id) ==
    LET i == CHOOSE j \in DOMAIN route.rules : route.rules[j].id = id
    IN  route.rules[i].priority

C8_TestIsPureRead ==
    resp.op = "test" =>
        /\ ~resp.changed
        /\ resp.logged = 0
        /\ resp.outcome = "none"

\* a test that answered with a match decision while both tables had rows
C8_Witness ==
    /\ resp.op = "test"
    /\ resp.status = 200
    /\ resp.matches
    /\ messageLog # <<>>

IsPrefix(s, t) == Len(s) <= Len(t) /\ SubSeq(t, 1, Len(s)) = s

\* C9: a step of a routing invocation, and a webhook request made for it,
\* leaves table routing_rules as it was and leaves the rows message_logs had
\* in place: the log before the step is a prefix of the log after it.
C9_RoutingWritesNoRule ==
    [][(route' # route \/ attempts' # attempts \/ resp'.op = "webhook") =>
          /\ routingRules' = routingRules
          /\ nextId' = nextId
          /\ IsPrefix(messageLog, messageLog')]_vars

\* an invocation returned after attempts, with rules stored and rows logged
C9_Witness ==
    /\ route.pc = "done"
    /\ attempts # <<>>
    /\ routingRules # <<>>
    /\ messageLog # <<>>

\* C10: a well-formed update, toggle, delete or test request that names a rule
\* which does not exist or is another user's is answered 404 and changes no
\* stored rule.
C10_MissingRuleIsNotFound ==
    (/\ resp.op \in {"update", "toggle", "delete", "test"}
     /\ resp.missing
     /\ resp.status # 400) =>
        /\ resp.status = 404
        /\ ~resp.changed

\* C14: a request of user A changes, removes and adds rules of A only, and
\* the rules in a reply to A are all A's: the rules owned by any other user
\* are, after the request, what they were before it.
C14_OwnerScoped ==
    [][/\ \A id \in DOMAIN routingRules :
             (id \notin DOMAIN routingRules' \/ routingRules'[id] # routingRules[id])
                 => routingRules[id].userId = resp'.user
       /\ \A id \in DOMAIN routingRules' \ DOMAIN routingRules :
             routingRules'[id].userId = resp'.user
       /\ resp'.owners \subseteq {resp'.user}]_vars

\* u2 asked to delete a rule while every stored rule was u1's, and both rules
\* of u1 are still stored
C14_Witness ==
    /\ resp.op = "delete"
    /\ resp.user = "u2"
    /\ resp.missing
    /\ DOMAIN routingRules = 1..2
    /\ \A id \in DOMAIN routingRules : routingRules[id].userId = "u1"

\* C15: every stored rule has an owner with an account, so that deleting an
\* account removes every rule of that user; and a rule leaves the table only
\* by a delete request of its owner or by the deletion of its owner's account.
C15_RulesHaveOwners ==
    /\ [](\A id \in DOMAIN routingRules : routingRules[id].userId \in users)
    /\ [][\A id \in DOMAIN routingRules \ DOMAIN routingRules' :
             /\ resp'.op \in {"delete", "account"}
             /\ resp'.user = routingRules[id].userId
             /\ resp'.op = "account" => routingRules[id].userId \notin users']_vars

\* an account was deleted and its rules went with it, and a rule of the other
\* user is still stored
C15_Witness ==
    /\ resp.op = "account"
    /\ resp.status = 200
    /\ resp.changed
    /\ routingRules # <<>>

\* the rule of the invocation's rule set that has this id
Held(id) == route.rules[CHOOSE j \in DOMAIN route.rules : route.rules[j].id = id]

\* C20: whatever update, toggle, delete request runs while an invocation is
\* in progress, the invocation uses each rule in one version: the rule set is
\* read from rows as they are stored at one moment and stays as read, and
\* every attempt is an action of a rule whose isEnabled, conditions and
\* actions are all those of that one version.
C20_RulesAreAtomic ==
    /\ [](\A n \in DOMAIN attempts :
             LET rule == Held(attempts[n].rule) IN
               /\ rule.isEnabled
               /\ matchesRule(route.text, rule)
               /\ attempts[n].index \in DOMAIN rule.actions
               /\ rule.actions[attempts[n].index].channel = attempts[n].channel)
    /\ [][/\ (route.pc = "idle" /\ route'.pc # "idle") =>
                \A i \in DOMAIN route'.rules :
                    LET rule == route'.rules[i] IN
                      /\ rule.id \in DOMAIN routingRules
                      /\ rule.conditions = routingRules[rule.id].conditions
                      /\ rule.actions = routingRules[rule.id].actions
                      /\ rule.isEnabled = routingRules[rule.id].isEnabled
           /\ route.pc # "idle" => route'.rules = route.rules]_vars

\* the invocation made an attempt for a rule after the stored rule had been
\* given other actions, or had been toggled or deleted
C20_Witness ==
    /\ attempts # <<>>
    /\ LET rule == Held(attempts[Len(attempts)].rule) IN
         \/ rule.id \notin DOMAIN routingRules
         \/ /\ rule.id \in DOMAIN routingRules
            /\ \/ routingRules[rule.id].actions # rule.actions
               \/ routingRules[rule.id].isEnabled # rule.isEnabled

\* C25: every stored rule has a name that is not empty, condition types of
\* the five known and action channels of the six known; a create or update
\* that is rejected as invalid leaves table routing_rules as it was.
C25_StoredRulesValid ==
    /\ \A id \in DOMAIN routingRules :
          LET row == routingRules[id] IN
            /\ row.name # ""
            /\ \A i \in DOMAIN row.conditions :
                  row.conditions[i].type \in
                      {"contains", "starts_with", "sentiment", "time_of_day", "keyword"}
            /\ \A i \in DOMAIN row.actions :
                  row.actions[i].channel \in
                      {"discord", "telegram", "sms", "email", "slack", "webhook"}
    /\ (resp.op \in {"create", "update"} /\ resp.status = 400) => ~resp.changed

\* an update of an existing rule of the caller was rejected as invalid
C25_Witness ==
    /\ resp.op = "update"
    /\ resp.status = 400
    /\ ~resp.missing
    /\ routingRules # <<>>

\* C26: the rule set an invocation works on is in one order only: by
\* priority, highest first, and among rules of equal priority by creation
\* order (rule id).
C26_TiesInCreationOrder ==
    \A i, j \in DOMAIN route.rules :
        (i < j /\ route.rules[i].priority = route.rules[j].priority)
            => route.rules[i].id < route.rules[j].id

\* C28: a toggle request that gets as far as its update answers 200 or 404,
\* and when it answers 200 it has flipped isEnabled of the rule from what was
\* stored just before, and reports the value it stored.
C28_ToggleIsAtomic ==
    [][(resp'.op = "toggle" /\ Len(toggles') < Len(toggles)) =>
          /\ resp'.status \in {200, 404}
          /\ resp'.status = 200 =>
                /\ resp'.id \in DOMAIN routingRules
                /\ routingRules'[resp'.id].isEnabled =
                       ~routingRules[resp'.id].isEnabled
                /\ resp'.isEnabled = routingRules'[resp'.id].isEnabled]_vars

\* C29: an update changes, in the rule it names, only those of name,
\* conditions, actions and priority that its body has; it leaves owner and
\* isEnabled of every rule and the set of ids as they were; a toggle changes
\* nothing but isEnabled.
C29_UpdateFrame ==
    [][/\ (resp'.op = "update" /\ nreq' # nreq) =>
             /\ DOMAIN routingRules' = DOMAIN routingRules
             /\ \A id \in DOMAIN routingRules :
                   /\ routingRules'[id].userId = routingRules[id].userId
                   /\ routingRules'[id].isEnabled = routingRules[id].isEnabled
                   /\ \A f \in {"name", "conditions", "actions", "priority"} :
                         routingRules'[id][f] # routingRules[id][f] =>
                             /\ resp'.status = 200
                             /\ id = resp'.id
                             /\ f \in resp'.fields
       /\ (resp'.op = "toggle" /\ Len(toggles') < Len(toggles)) =>
             /\ DOMAIN routingRules' = DOMAIN routingRules
             /\ \A id \in DOMAIN routingRules :
                   \A f \in {"userId", "name", "conditions", "actions", "priority"} :
                       routingRules'[id][f] = routingRules[id][f]]_vars

\* an update whose body had a name, and also isEnabled, userId and id, gave
\* the rule the name and left it enabled and with its owner
C29_Witness ==
    /\ resp.op = "update"
    /\ resp.status = 200
    /\ resp.fields = {"name"}
    /\ resp.id \in DOMAIN routingRules
    /\ routingRules[resp.id].name = "m"
    /\ routingRules[resp.id].isEnabled
    /\ routingRules[resp.id].userId = resp.user

-----------------------------------------------------------------------------
(* Properties of the matchers (SpecMatch) *)

\* the Condition Evaluator: what one condition comes to on a text
Evaluates(text, condition) ==
    LET lower == toLowerCase(text)
        pieces == split(condition.value)
    IN  CASE condition.type = "contains" ->
               includes(lower, toLowerCase(condition.value))
          [] condition.type = "starts_with" ->
               startsWith(lower, toLowerCase(condition.value))
          [] condition.type = "keyword" ->
               \E k \in DOMAIN pieces :
                   includes(lower, toLowerCase(trim(pieces[k])))
          [] OTHER -> TRUE

AllEvaluate(text, conditions) ==
    \A i \in DOMAIN conditions : Evaluates(text, conditions[i])

\* C7: in both matchers a rule matches a text exactly when every one of its
\* conditions evaluates to true on the text; with no condition it matches.
C7_MatchIsConjunction ==
    /\ probe.pc \in {"tested", "done"} =>
          probe.backend = AllEvaluate(probe.text, probe.conditions)
    /\ probe.pc = "done" =>
          probe.ios = AllEvaluate(probe.text, probe.conditions)

\* the only condition of the rule handed to the matchers, when it has one
Single == probe.conditions[1]

IsSingle(type) ==
    /\ probe.pc = "done"
    /\ Len(probe.conditions) = 1
    /\ Single.type = type

\* C16: in both matchers a `contains` condition is true exactly when the
\* lower-cased text has the lower-cased value as a substring, so that the
\* letter case of text and value makes no difference.
C16_ContainsIgnoresCase ==
    IsSingle("contains") =>
        LET holds == includes(toLowerCase(probe.text), toLowerCase(Single.value))
        IN  /\ probe.backend = holds
            /\ probe.ios = holds

\* C17: in both matchers a `starts_with` condition is true exactly when the
\* lower-cased text begins with the lower-cased value: a rule whose
\* `starts_with` value is not a prefix of the text does not match.
C17_StartsWithEverywhere ==
    IsSingle("starts_with") =>
        LET holds == startsWith(toLowerCase(probe.text), toLowerCase(Single.value))
        IN  /\ probe.backend = holds
            /\ probe.ios = holds

\* C18: in both matchers a `keyword` condition is true exactly when one of the
\* tokens of the value, split on commas, trimmed and lower-cased, is a
\* substring of the lower-cased text; an empty token counts as a token.
C18_KeywordAnyToken ==
    IsSingle("keyword") =>
        LET tokens == split(Single.value)
            holds == \E k \in DOMAIN tokens :
                        includes(toLowerCase(probe.text),
                                 toLowerCase(trim(tokens[k])))
        IN  /\ probe.backend = holds
            /\ probe.ios = holds

\* the conditions of the types that checkConditions discriminates on
Discriminating(conditions) ==
    SelectSeq(conditions,
              LAMBDA c : c.type \in {"contains", "starts_with", "keyword"})

\* C19: a condition of type `sentiment`, `time_of_day` or of a type nobody
\* knows is true on every text: a rule matches exactly when it matches with
\* those conditions taken out, in checkConditions and in matchesRule.
C19_OtherTypesAlwaysTrue ==
    /\ probe.pc \in {"tested", "done"} =>
          probe.backend = AllEvaluate(probe.text, Discriminating(probe.conditions))
    /\ probe.pc = "done" =>
          probe.ios = matchesRule(probe.text,
                          [conditions |-> Discriminating(probe.conditions)])

\* a rule of two conditions, one of them a `sentiment` condition, matched
C19_Witness ==
    /\ probe.pc = "done"
    /\ Len(probe.conditions) = 2
    /\ \E i \in DOMAIN probe.conditions : probe.conditions[i].type = "sentiment"
    /\ \E i \in DOMAIN probe.conditions : probe.conditions[i].type = "contains"
    /\ probe.backend

\* C24: the match decision of POST /:id/test is the match decision of
\* routeResponse: for every text and condition list, checkConditions and
\* matchesRule give the same answer.
C24_TestEqualsRouting ==
    probe.pc = "done" => probe.backend = probe.ios

-----------------------------------------------------------------------------
(* The test request against the Condition Evaluator (Spec) *)

\* C30: the `matches` a test request answers for a rule of the caller is what
\* the rule's conditions come to on the text and nothing else: it is the same
\* for the rule enabled and disabled.
C30_TestIgnoresEnabled ==
    (resp.op = "test" /\ resp.status = 200) =>
        /\ resp.id \in DOMAIN routingRules
        /\ resp.matches = AllEvaluate(resp.text, routingRules[resp.id].conditions)

\* a test of a disabled rule answered matches = true
C30_Witness ==
    /\ resp.op = "test"
    /\ resp.status = 200
    /\ resp.matches
    /\ resp.id \in DOMAIN routingRules
    /\ ~routingRules[resp.id].isEnabled

====
